---- MODULE Spec2Model ----
(***************************************************************************)
(* Model of the ai-resume-analyzer front end: the upload/audit pipeline    *)
(* (app/routes/upload.tsx, handleAnalyze), the record reader               *)
(* (app/routes/resume.$id.tsx, loadResume), the dashboard                  *)
(* (app/routes/_index.tsx, loadResumes) with its ResumeCard, the bulk wipe *)
(* (app/routes/wipe.tsx, handleExecuteWipe), the score panels, the        *)
(* Accordion, the Auth view with the access guards of the routed views,    *)
(* and the root Layout (app/root.tsx), running against the Puter key-value *)
(* store and file system.  File paths and record ids are opaque to the     *)
(* program: each invocation is given names of its own.                     *)
(*                                                                         *)
(* JavaScript is single threaded: the code between two awaits runs as one  *)
(* step.  Every action below is therefore "the completion of the call the  *)
(* handler awaits, followed by the handler's code up to its next await".   *)
(***************************************************************************)
EXTENDS Integers, Sequences, FiniteSets, TLC

(***************************************************************************)
(* Bounds of the model.                                                    *)
(***************************************************************************)
\* number of Upload views, each able to start one handleAnalyze
MaxAudits == 2
\* number of times the reader view may run its loadResume effect
MaxLoads == 2

\* number of times a ResumeCard may run its effect
MaxEffects == 2
\* the largest score a panel is rendered with
MaxScore == 100
\* number of items of an Accordion
MaxItems == 5
\* runs of the effect of the root Layout
MaxRuns == 3
\* redirects followed without the user or the session intervening
MaxHops == 3

Audits == 1..MaxAudits
Loads == 1..MaxLoads
Effects == 1..MaxEffects
Scores == 0..MaxScore
Items == {"item-" \o ToString(i) : i \in 1..MaxItems}

(***************************************************************************)
(* JSON.  Text is modelled after lexing, as a sequence of tokens; a lexeme *)
(* that is no JSON token (prose, a markdown fence) is a "bad" token.       *)
(* Values are tagged records.                                              *)
(***************************************************************************)
TLB == [k |-> "{"]
TRB == [k |-> "}"]
TColon == [k |-> ":"]
TComma == [k |-> ","]
TNull == [k |-> "null"]
TNum(n) == [k |-> "num", n |-> n]
TStr(s) == [k |-> "str", s |-> s]
TBad(w) == [k |-> "bad", w |-> w]

JUndefined == [t |-> "undefined"]
JNull == [t |-> "null"]
JNum(n) == [t |-> "num", n |-> n]
JStr(s) == [t |-> "str", s |-> s]
JObj(f) == [t |-> "obj", o |-> f]
EmptyObj == [x \in {} |-> JNull]

ParseFail == [ok |-> FALSE, val |-> JUndefined, next |-> 0]

RECURSIVE ParseValue(_, _)
RECURSIVE ParsePairs(_, _, _)

\* object members from position i on: "key" : value { , "key" : value } "}"
ParsePairs(toks, i, acc) ==
    IF i + 1 > Len(toks) \/ toks[i].k # "str" THEN ParseFail
    ELSE IF toks[i + 1].k # ":" THEN ParseFail
    ELSE LET v == ParseValue(toks, i + 2) IN
         IF ~v.ok \/ v.next > Len(toks) THEN ParseFail
         ELSE LET obj == (toks[i].s :> v.val) @@ acc IN
              CASE toks[v.next].k = "," -> ParsePairs(toks, v.next + 1, obj)
                [] toks[v.next].k = "}" ->
                       [ok |-> TRUE, val |-> JObj(obj), next |-> v.next + 1]
                [] OTHER -> ParseFail

\* one JSON value starting at position i
ParseValue(toks, i) ==
    IF i > Len(toks) THEN ParseFail
    ELSE CASE toks[i].k = "num" ->
                  [ok |-> TRUE, val |-> JNum(toks[i].n), next |-> i + 1]
           [] toks[i].k = "str" ->
                  [ok |-> TRUE, val |-> JStr(toks[i].s), next |-> i + 1]
           [] toks[i].k = "null" ->
                  [ok |-> TRUE, val |-> JNull, next |-> i + 1]
           [] toks[i].k = "{" ->
                  IF i + 1 <= Len(toks) /\ toks[i + 1].k = "}"
                  THEN [ok |-> TRUE, val |-> JObj(EmptyObj), next |-> i + 2]
                  ELSE ParsePairs(toks, i + 1, EmptyObj)
           [] OTHER -> ParseFail

\* JSON.parse: ok is FALSE where JSON.parse throws a SyntaxError.  The
\* argument is first converted to a string: undefined becomes the text
\* "undefined", which is no JSON.
JSONParse(text) ==
    IF text = JUndefined THEN [ok |-> FALSE, val |-> JUndefined]
    ELSE LET r == ParseValue(text.s, 1) IN
         IF r.ok /\ r.next = Len(text.s) + 1
         THEN [ok |-> TRUE, val |-> r.val]
         ELSE [ok |-> FALSE, val |-> JUndefined]

\* the order in which the members of an object are written
KeyOrder == <<"id", "resumePath", "imagePath", "companyName", "jobTitle",
              "jobDescription", "feedback", "overallScore", "ATS", "score">>

RECURSIVE Stringify(_)
RECURSIVE StringifyPairs(_, _)

StringifyPairs(f, keys) ==
    IF keys = <<>> THEN <<>>
    ELSE <<TStr(Head(keys)), TColon>> \o Stringify(f[Head(keys)])
         \o (IF Len(keys) > 1 THEN <<TComma>> ELSE <<>>)
         \o StringifyPairs(f, Tail(keys))

\* JSON.stringify of a value
Stringify(v) ==
    CASE v.t = "num" -> <<TNum(v.n)>>
      [] v.t = "str" -> <<TStr(v.s)>>
      [] v.t = "null" -> <<TNull>>
      [] v.t = "obj" ->
             <<TLB>>
             \o StringifyPairs(v.o, SelectSeq(KeyOrder, LAMBDA k : k \in DOMAIN v.o))
             \o <<TRB>>

\* the text JSON.stringify returns, as a JavaScript string
JSONStringify(v) == [t |-> "text", s |-> Stringify(v)]

\* JavaScript truthiness of a value
Truthy(v) ==
    CASE v.t = "undefined" -> FALSE
      [] v.t = "null" -> FALSE
      [] v.t = "num" -> v.n # 0
      [] v.t = "str" -> v.s # ""
      [] OTHER -> TRUE

\* v.name for a value that is neither null nor undefined
Field(v, name) ==
    IF v.t = "obj" /\ name \in DOMAIN v.o THEN v.o[name] ELSE JUndefined

(***************************************************************************)
(* Inputs.                                                                 *)
(***************************************************************************)
NoFile == ""
Files == {"cv.pdf"}

\* the values of the three form fields read by handleSubmit
Ctxs ==
    { [companyName |-> "Acme", jobTitle |-> "Engineer",
       jobDescription |-> "Build systems"],
      [companyName |-> "Initech", jobTitle |-> "Analyst",
       jobDescription |-> "Read reports"] }

Text(toks) == [t |-> "text", s |-> toks]

\* a response of the shape the prompt asks for, cut down to two members
PayloadText(n) ==
    Text(<<TLB, TStr("overallScore"), TColon, TNum(n), TComma,
           TStr("ATS"), TColon, TLB, TStr("score"), TColon, TNum(90), TRB, TRB>>)

\* message.content of the responses ai.feedback may resolve to
Contents ==
    { [kind |-> "string", text |-> PayloadText(82)],
      [kind |-> "array", items |-> <<[type |-> "text", text |-> PayloadText(69)]>>],
      [kind |-> "string", text |-> PayloadText(150)],
      [kind |-> "string", text |-> Text(<<TLB, TRB>>)],
      [kind |-> "string",
       text |-> Text(<<TLB, TStr("overallScore"), TColon, TStr("high"), TRB>>)],
      [kind |-> "string", text |-> Text(<<TStr("")>>)],
      [kind |-> "string",
       text |-> Text(<<TBad("Sure,"), TBad("here"), TLB, TStr("overallScore"),
                       TColon, TNum(82), TRB>>)],
      [kind |-> "array", items |-> <<>>] }

(***************************************************************************)
(* State.                                                                  *)
(***************************************************************************)
VARIABLES
    \* the Puter stores
    kv,             \* key-value store: key -> stored text
    fs,             \* file system: path -> content
    \* one Upload view per element of Audits
    file,           \* useState file
    isProcessing,   \* useState isProcessing
    statusText,     \* useState statusText
    \* the handleAnalyze invocation of that view
    pc,             \* the await it is suspended at, or how it ended
    args,           \* its arguments companyName, jobTitle, jobDescription, file
    uploadedFile,   \* const uploadedFile (its path)
    imageFile,      \* const imageFile (its file)
    uploadedImage,  \* const uploadedImage (its path)
    uuid,           \* const uuid
    data,           \* const data
    nav,            \* the route navigate() was called with
    \* history
    calls,          \* the external calls the invocation started and saw end
    response,       \* what ai.feedback resolved to
    failed,         \* the stage at which the invocation stopped
    \* the Resume (reader) view
    mounted,        \* the view is on screen
    inst,           \* number of times the view has been mounted
    rid,            \* useParams id
    resumeUrl,      \* useState resumeUrl
    imageUrl,       \* useState imageUrl
    feedback,       \* useState feedback
    objectUrls,     \* the object URLs created and not revoked
    urlCount,       \* number of object URLs created
    \* the loadResume invocations of the view's effect
    lpc,            \* the await it is suspended at, or how it ended
    lid,            \* the id its closure captured
    linst,          \* the mount of the view it was started by
    ldata,          \* const data
    lstop,          \* why it stopped
    \* the Home (dashboard) view
    dmounted,       \* the view is on screen
    dpc,            \* where its loadResumes invocation is
    resumes,        \* useState resumes
    loadingResumes, \* useState loadingResumes
    \* a ResumeCard
    cmounted,       \* the card is on screen
    cpath,          \* its prop resume.imagePath
    cardUrl,        \* useState resumeUrl
    cfirst,         \* the first run of its effect since it was mounted
    ecur,           \* the latest run of its effect
    epc,            \* where the loadResume invocation of a run is
    epath,          \* the imagePath the run captured
    eurl,           \* let url of the run
    created,        \* the object URLs the card's runs created
    revokes,        \* the arguments of the calls of URL.revokeObjectURL
    \* the WipeApp view
    wmounted,       \* the view is on screen
    wload,          \* the loadFiles invocation of its effect is in flight
    wpc,            \* where its handleExecuteWipe invocation is
    wdetached,      \* that invocation was started by a view since unmounted
    wtargets,       \* the files that invocation deletes
    wfiles,         \* useState files
    isWiping,       \* useState isWiping
    isDialogOpen,   \* useState isDialogOpen
    \* the score panels
    panel,          \* what ATS, ScoreBadge and Category render for a score
    \* an Accordion
    amounted,       \* the Accordion is on screen
    allowMultiple,  \* its prop allowMultiple
    activeItems,    \* useState activeItems
    \* the session the views read from usePuterStore
    isLoading,      \* isLoading
    isAuthenticated,\* auth.isAuthenticated
    \* the location
    route,          \* the path of the current location
    nextParam,      \* the next parameter of its query, "" when it has none
    authOpen,       \* the Auth view is on screen
    hops,           \* the redirects made since the user navigated or the
                    \* session changed
    \* the root Layout
    hasInitialized, \* useRef hasInitialized
    initCalls,      \* number of calls of init
    effectRuns      \* number of runs of its effect

storeVars == <<kv, fs>>
viewVars == <<file, isProcessing, statusText>>
localVars == <<args, uploadedFile, imageFile, uploadedImage, uuid, data>>
auditVars == <<pc, nav, calls, response, failed>>
readerVars == <<mounted, inst, rid, resumeUrl, imageUrl, feedback>>
urlVars == <<objectUrls, urlCount>>
loadVars == <<lpc, lid, linst, ldata, lstop>>
uploadVars == <<viewVars, localVars, auditVars>>
dashVars == <<dmounted, dpc, resumes, loadingResumes>>
cardVars == <<cmounted, cpath, cardUrl, cfirst, ecur, epc, epath, eurl, created, revokes>>
wipeVars == <<wmounted, wload, wpc, wdetached, wtargets, wfiles, isWiping, isDialogOpen>>
tierVars == <<panel>>
accVars == <<amounted, allowMultiple, activeItems>>
\* the components added to the views above
sessVars == <<isLoading, isAuthenticated>>
routeVars == <<route, nextParam, authOpen, hops>>
layoutVars == <<hasInitialized, initCalls, effectRuns>>
pageVars == <<sessVars, routeVars, layoutVars>>
moreVars == <<accVars, pageVars>>
\* the views other than Upload and Resume
sideVars == <<dashVars, cardVars, wipeVars, tierVars, moreVars>>
vars == <<storeVars, viewVars, localVars, auditVars, readerVars, urlVars, loadVars,
          sideVars>>

\* the routes of the application, /resume/:id without its id
Routes == {"/", "/auth", "/upload", "/resume", "/wipe"}

NoImage == [kind |-> "none"]
NoResponse == [kind |-> "none"]
NullResponse == [kind |-> "null"]
NoPanel == [score |-> -1, ats |-> "", badge |-> "", category |-> ""]
NoArgs == [companyName |-> "", jobTitle |-> "", jobDescription |-> "", file |-> NoFile]

(***************************************************************************)
(* The Puter stores, as the views use them.                                *)
(***************************************************************************)
\* as ResumeKey, but the key does not depend on the id
ResumeKey_Fixed(id) == [prefix |-> "resume:", id |-> "latest"]

\* the key `resume:${id}`
ResumeKey(id) == [prefix |-> "resume:", id |-> id]

\* kv.get: the stored text, or null
KvGet(store, key) == IF key \in DOMAIN store THEN store[key] ELSE JNull

\* kv.set
KvSet(store, key, value) == (key :> value) @@ store

\* the path fs.upload stores the n-th file uploaded by invocation a under:
\* a path of its own for every upload
PathOf(a, n) == "/user/file" \o ToString(a) \o "-" \o ToString(n)

\* the value generateUUID returns to invocation a: one it returns to no other
generateUUID(a) == "uuid-" \o ToString(a)

\* the content of a File
PdfOf(f) == [kind |-> "pdf", name |-> f]
PngOf(f) == [kind |-> "png", name |-> f]

(***************************************************************************)
(* Call history.                                                           *)
(***************************************************************************)
Ev(e, op, arg) == [ev |-> e, op |-> op, arg |-> arg]
\* the call the invocation is suspended at
InFlight(a) == calls[a][Len(calls[a])]
\* the awaited call completes and the calls in starts are issued
Logged(a, starts) ==
    calls' = [calls EXCEPT ![a] = @ \o <<[InFlight(a) EXCEPT !.ev = "end"]>> \o starts]

\* every view as it is before it is used
InitViews ==
    /\ kv = [k \in {} |-> JNull]
    /\ fs = [p \in {} |-> JNull]
    /\ file = [a \in Audits |-> NoFile]
    /\ isProcessing = [a \in Audits |-> FALSE]
    /\ statusText = [a \in Audits |-> ""]
    /\ pc = [a \in Audits |-> "idle"]
    /\ args = [a \in Audits |-> NoArgs]
    /\ uploadedFile = [a \in Audits |-> ""]
    /\ imageFile = [a \in Audits |-> NoImage]
    /\ uploadedImage = [a \in Audits |-> ""]
    /\ uuid = [a \in Audits |-> ""]
    /\ data = [a \in Audits |-> JUndefined]
    /\ nav = [a \in Audits |-> ""]
    /\ calls = [a \in Audits |-> <<>>]
    /\ response = [a \in Audits |-> NoResponse]
    /\ failed = [a \in Audits |-> ""]
    /\ mounted = FALSE
    /\ inst = 0
    /\ rid = ""
    /\ resumeUrl = ""
    /\ imageUrl = ""
    /\ feedback = JNull
    /\ objectUrls = {}
    /\ urlCount = 0
    /\ lpc = [l \in Loads |-> "unused"]
    /\ lid = [l \in Loads |-> ""]
    /\ linst = [l \in Loads |-> 0]
    /\ ldata = [l \in Loads |-> JUndefined]
    /\ lstop = [l \in Loads |-> ""]
    /\ dmounted = FALSE
    /\ dpc = "idle"
    /\ resumes = {}
    /\ loadingResumes = FALSE
    /\ cmounted = FALSE
    /\ cpath = ""
    /\ cardUrl = ""
    /\ cfirst = 0
    /\ ecur = 0
    /\ epc = [e \in Effects |-> "unused"]
    /\ epath = [e \in Effects |-> ""]
    /\ eurl = [e \in Effects |-> ""]
    /\ created = {}
    /\ revokes = <<>>
    /\ wmounted = FALSE
    /\ wload = FALSE
    /\ wpc = "idle"
    /\ wdetached = FALSE
    /\ wtargets = {}
    /\ wfiles = {}
    /\ isWiping = FALSE
    /\ isDialogOpen = FALSE
    /\ panel = NoPanel
    /\ amounted = FALSE
    /\ allowMultiple = FALSE
    /\ activeItems = <<>>
    /\ nextParam = ""
    /\ authOpen = FALSE
    /\ hops = 0

\* a session that is established: the Layout has called init, the store has
\* finished loading and the user is signed in
Init ==
    /\ InitViews
    /\ isLoading = FALSE
    /\ isAuthenticated = TRUE
    /\ route = "/"
    /\ hasInitialized = TRUE
    /\ initCalls = 1
    /\ effectRuns = 1

\* a page load at any location: nothing has run yet
InitPage ==
    /\ InitViews
    /\ isLoading = TRUE
    /\ isAuthenticated = FALSE
    /\ route \in Routes
    /\ hasInitialized = FALSE
    /\ initCalls = 0
    /\ effectRuns = 0

(***************************************************************************)
(* The Upload view.                                                        *)
(***************************************************************************)
\* the status line of the view
DisplayedStatus(processing, text) ==
    IF processing THEN "> " \o text ELSE "> SYSTEM_READY"

\* the view shows the form, and with it the file picker, while not processing
handleFileSelect(a) ==
    /\ ~isProcessing[a]
    /\ \E f \in Files \cup {NoFile} : file' = [file EXCEPT ![a] = f]
    /\ UNCHANGED <<storeVars, isProcessing, statusText, localVars, auditVars>>
    /\ UNCHANGED <<readerVars, urlVars, loadVars, sideVars>>

\* handleSubmit, were the form on screen while the view is processing
handleSubmit_FormShown(a) ==
    /\ file[a] # NoFile
    /\ \E c \in Ctxs :
         args' = [args EXCEPT ![a] = [companyName |-> c.companyName,
                                      jobTitle |-> c.jobTitle,
                                      jobDescription |-> c.jobDescription,
                                      file |-> file[a]]]
    /\ isProcessing' = [isProcessing EXCEPT ![a] = TRUE]
    /\ statusText' = [statusText EXCEPT ![a] = "SYNCING_DOCUMENT_CACHE..."]
    /\ calls' = [calls EXCEPT ![a] =
                    <<Ev("start", "fs.upload", [file |-> PdfOf(file[a])])>>]
    /\ pc' = [pc EXCEPT ![a] = "await_upload_source"]
    /\ UNCHANGED <<storeVars, file, uploadedFile, imageFile, uploadedImage,
                   uuid, data, nav, response, failed>>
    /\ UNCHANGED <<readerVars, urlVars, loadVars, sideVars>>

\* handleSubmit, and handleAnalyze up to its first await
handleSubmit(a) ==
    /\ ~isProcessing[a]
    /\ file[a] # NoFile
    /\ \E c \in Ctxs :
         args' = [args EXCEPT ![a] = [companyName |-> c.companyName,
                                      jobTitle |-> c.jobTitle,
                                      jobDescription |-> c.jobDescription,
                                      file |-> file[a]]]
    /\ isProcessing' = [isProcessing EXCEPT ![a] = TRUE]
    /\ statusText' = [statusText EXCEPT ![a] = "SYNCING_DOCUMENT_CACHE..."]
    /\ calls' = [calls EXCEPT ![a] =
                    <<Ev("start", "fs.upload", [file |-> PdfOf(file[a])])>>]
    /\ pc' = [pc EXCEPT ![a] = "await_upload_source"]
    /\ UNCHANGED <<storeVars, file, uploadedFile, imageFile, uploadedImage,
                   uuid, data, nav, response, failed>>
    /\ UNCHANGED <<readerVars, urlVars, loadVars, sideVars>>

\* as Returned, but the handler undoes what it has stored so far
Returned_Rollback(a, stage, label) ==
    /\ statusText' = [statusText EXCEPT ![a] = label]
    /\ pc' = [pc EXCEPT ![a] = "returned"]
    /\ failed' = [failed EXCEPT ![a] = stage]
    /\ Logged(a, <<>>)
    /\ fs' = [p \in DOMAIN fs \ {uploadedFile[a], uploadedImage[a]} |-> fs[p]]
    /\ kv' = [k \in DOMAIN kv \ {ResumeKey(uuid[a])} |-> kv[k]]

\* as Returned, but the handler tries the failed call once more
Returned_Retry(a, stage, label) ==
    IF Len(calls[a]) < 12
    THEN /\ Logged(a, <<InFlight(a)>>)
         /\ UNCHANGED <<statusText, pc, failed, storeVars>>
    ELSE /\ statusText' = [statusText EXCEPT ![a] = label]
         /\ pc' = [pc EXCEPT ![a] = "returned"]
         /\ failed' = [failed EXCEPT ![a] = stage]
         /\ Logged(a, <<>>)
         /\ UNCHANGED storeVars

\* return setStatusText(label): the handler returns after setting an error
\* label, and does nothing else
Returned(a, stage, label) ==
    /\ statusText' = [statusText EXCEPT ![a] = label]
    /\ pc' = [pc EXCEPT ![a] = "returned"]
    /\ failed' = [failed EXCEPT ![a] = stage]
    /\ Logged(a, <<>>)
    /\ UNCHANGED storeVars

\* an exception leaves the handler: its promise is rejected, nothing catches it
Rejected(a, stage) ==
    /\ pc' = [pc EXCEPT ![a] = "rejected"]
    /\ failed' = [failed EXCEPT ![a] = stage]
    /\ Logged(a, <<>>)
    /\ UNCHANGED <<statusText, storeVars>>

\* Stage 1 ends: fs.upload([file]) resolves
UploadSourceDone(a) ==
    /\ pc[a] = "await_upload_source"
    /\ \/ LET p == PathOf(a, 1) IN
          /\ fs' = (p :> InFlight(a).arg.file) @@ fs
          /\ uploadedFile' = [uploadedFile EXCEPT ![a] = p]
          /\ statusText' = [statusText EXCEPT ![a] = "GENERATING_VISUAL_REPRESENTATION..."]
          /\ Logged(a, <<Ev("start", "convertPdfToImage", [file |-> PdfOf(args[a].file)])>>)
          /\ pc' = [pc EXCEPT ![a] = "await_render"]
          /\ UNCHANGED <<kv, failed>>
       \/ /\ Returned(a, "UPLOADING_SOURCE", "CRITICAL_ERROR: UPLOAD_FAILED")
          /\ UNCHANGED uploadedFile
       \/ /\ Rejected(a, "UPLOADING_SOURCE")
          /\ UNCHANGED uploadedFile
    /\ UNCHANGED <<file, isProcessing, args, imageFile, uploadedImage, uuid, data,
                   nav, response>>
    /\ UNCHANGED <<readerVars, urlVars, loadVars, sideVars>>

\* Stage 2 ends: convertPdfToImage(file) resolves
RenderDone(a) ==
    /\ pc[a] = "await_render"
    /\ \/ /\ imageFile' = [imageFile EXCEPT ![a] = PngOf(args[a].file)]
          /\ statusText' = [statusText EXCEPT ![a] = "TRANSMITTING_ENCRYPTED_PACKETS..."]
          /\ Logged(a, <<Ev("start", "fs.upload", [file |-> PngOf(args[a].file)])>>)
          /\ pc' = [pc EXCEPT ![a] = "await_upload_image"]
          /\ UNCHANGED <<failed, storeVars>>
       \/ /\ Returned(a, "RENDERING_PREVIEW", "CRITICAL_ERROR: RENDER_FAILED")
          /\ UNCHANGED imageFile
    /\ UNCHANGED <<file, isProcessing, args, uploadedFile, uploadedImage,
                   uuid, data, nav, response>>
    /\ UNCHANGED <<readerVars, urlVars, loadVars, sideVars>>

\* as InitialRecord, but with a placeholder in feedback
InitialRecord_Placeholder(id, resumePath, imagePath, companyName, jobTitle, jobDescription) ==
    JObj([id |-> JStr(id),
          resumePath |-> JStr(resumePath),
          imagePath |-> JStr(imagePath),
          companyName |-> JStr(companyName),
          jobTitle |-> JStr(jobTitle),
          jobDescription |-> JStr(jobDescription),
          feedback |-> JStr("pending")])

\* const data = { id, resumePath, imagePath, companyName, jobTitle,
\*                jobDescription, feedback: '' }
InitialRecord(id, resumePath, imagePath, companyName, jobTitle, jobDescription) ==
    JObj([id |-> JStr(id),
          resumePath |-> JStr(resumePath),
          imagePath |-> JStr(imagePath),
          companyName |-> JStr(companyName),
          jobTitle |-> JStr(jobTitle),
          jobDescription |-> JStr(jobDescription),
          feedback |-> JStr("")])

\* prepareInstructions({ jobTitle, jobDescription }): the two values the
\* prompt template is filled with
prepareInstructions(jobTitle, jobDescription) ==
    [role |-> jobTitle,
     requirements |-> IF jobDescription # "" THEN jobDescription
                      ELSE "Top-tier Industry Excellence"]

\* the call ai.feedback(uploadedFile.path, prepareInstructions(...))
FeedbackCall(a) ==
    Ev("start", "ai.feedback",
       [path |-> uploadedFile[a],
        instructions |-> prepareInstructions(args[a].jobTitle, args[a].jobDescription)])

\* the call kv.set(`resume:${uuid}`, JSON.stringify(data))
SetCall(id, d) ==
    Ev("start", "kv.set", [key |-> ResumeKey(id), value |-> JSONStringify(d)])

\* as StartInitialWrite, but kv.set is not awaited: the scoring call starts
\* while it is in flight
StartInitialWrite_NoAwait(a, id, d) ==
    /\ statusText' = [statusText EXCEPT ![a] = "AI_EVALUATION_IN_PROGRESS..."]
    /\ Logged(a, <<SetCall(id, d), FeedbackCall(a)>>)
    /\ pc' = [pc EXCEPT ![a] = "await_feedback"]

\* as StartInitialWrite, but the record is first written after scoring
StartInitialWrite_Skip(a, id, d) ==
    /\ statusText' = [statusText EXCEPT ![a] = "AI_EVALUATION_IN_PROGRESS..."]
    /\ Logged(a, <<FeedbackCall(a)>>)
    /\ pc' = [pc EXCEPT ![a] = "await_feedback"]

\* Stage 4 starts: the status is set and the first kv.set is awaited
StartInitialWrite(a, id, d) ==
    /\ statusText' = [statusText EXCEPT ![a] = "STRUCTURING_NEURAL_METADATA..."]
    /\ Logged(a, <<SetCall(id, d)>>)
    /\ pc' = [pc EXCEPT ![a] = "await_kv_initial"]

\* Stage 3 ends: fs.upload([imageFile.file]) resolves; Stage 4 starts
UploadImageDone(a) ==
    /\ pc[a] = "await_upload_image"
    /\ \/ LET p == PathOf(a, 2)
              id == generateUUID(a)
              d == InitialRecord(id, uploadedFile[a], p, args[a].companyName,
                                 args[a].jobTitle, args[a].jobDescription)
          IN
          /\ fs' = (p :> InFlight(a).arg.file) @@ fs
          /\ uploadedImage' = [uploadedImage EXCEPT ![a] = p]
          /\ uuid' = [uuid EXCEPT ![a] = id]
          /\ data' = [data EXCEPT ![a] = d]
          /\ StartInitialWrite(a, id, d)
          /\ UNCHANGED <<kv, failed>>
       \/ /\ Returned(a, "UPLOADING_PREVIEW", "CRITICAL_ERROR: TRANSMISSION_FAILED")
          /\ UNCHANGED <<uploadedImage, uuid, data>>
       \/ /\ Rejected(a, "UPLOADING_PREVIEW")
          /\ UNCHANGED <<uploadedImage, uuid, data>>
    /\ UNCHANGED <<file, isProcessing, args, uploadedFile, imageFile, nav, response>>
    /\ UNCHANGED <<readerVars, urlVars, loadVars, sideVars>>

\* Stage 4 ends: the first kv.set resolves; Stage 5 starts
KvInitialDone(a) ==
    /\ pc[a] = "await_kv_initial"
    /\ \/ /\ kv' = KvSet(kv, InFlight(a).arg.key, InFlight(a).arg.value)
          /\ statusText' = [statusText EXCEPT ![a] = "AI_EVALUATION_IN_PROGRESS..."]
          /\ Logged(a, <<FeedbackCall(a)>>)
          /\ pc' = [pc EXCEPT ![a] = "await_feedback"]
          /\ UNCHANGED <<failed, fs>>
       \/ Rejected(a, "WRITING_INITIAL_RECORD")
    /\ UNCHANGED <<file, isProcessing, localVars, nav, response>>
    /\ UNCHANGED <<readerVars, urlVars, loadVars, sideVars>>

\* feedback.message.content as a string, or content[0].text; threw is TRUE
\* where content[0] is undefined and reading its text throws a TypeError
FeedbackText(content) ==
    IF content.kind = "string" THEN [threw |-> FALSE, text |-> content.text]
    ELSE IF Len(content.items) = 0 THEN [threw |-> TRUE, text |-> JUndefined]
    ELSE IF content.items[1].type = "text"
         THEN [threw |-> FALSE, text |-> content.items[1].text]
         ELSE [threw |-> FALSE, text |-> JUndefined]

\* as ParseResponse, but a response that does not parse is kept as it is
ParseResponse_KeepRaw(content) ==
    LET ft == FeedbackText(content)
        parsed == JSONParse(ft.text)
    IN IF ft.threw \/ ~parsed.ok THEN [ok |-> TRUE, val |-> JStr("raw response")]
       ELSE [ok |-> TRUE, val |-> parsed.val]

\* JSON.parse(feedbackText): ok is FALSE where one of the two throws
ParseResponse(content) ==
    LET ft == FeedbackText(content)
        parsed == JSONParse(ft.text)
    IN IF ft.threw \/ ~parsed.ok THEN [ok |-> FALSE, val |-> JUndefined]
       ELSE [ok |-> TRUE, val |-> parsed.val]

\* as WithFeedback, but the record is built anew from the id and the feedback
WithFeedback_Rebuilt(d, value) ==
    JObj([id |-> d.o["id"], feedback |-> value])

\* data.feedback = value
WithFeedback(d, value) == JObj([d.o EXCEPT !["feedback"] = value])

\* Stage 5 ends: ai.feedback resolves; the response is parsed and the second
\* kv.set starts
FeedbackDone(a) ==
    /\ pc[a] = "await_feedback"
    /\ \/ /\ response' = [response EXCEPT ![a] = NullResponse]
          /\ Returned(a, "SCORING", "CRITICAL_ERROR: AI_TIMEOUT")
          /\ UNCHANGED data
       \/ \E c \in Contents :
            LET parsed == ParseResponse(c) IN
            /\ response' = [response EXCEPT ![a] = c]
            /\ IF ~parsed.ok
               THEN /\ Rejected(a, "PARSING")
                    /\ UNCHANGED data
               ELSE LET d == WithFeedback(data[a], parsed.val) IN
                    /\ data' = [data EXCEPT ![a] = d]
                    /\ Logged(a, <<SetCall(uuid[a], d)>>)
                    /\ pc' = [pc EXCEPT ![a] = "await_kv_final"]
                    /\ UNCHANGED <<statusText, failed, storeVars>>
    /\ UNCHANGED <<file, isProcessing, args, uploadedFile, imageFile,
                   uploadedImage, uuid, nav>>
    /\ UNCHANGED <<readerVars, urlVars, loadVars, sideVars>>

\* the second kv.set resolves; the view navigates to the reader
KvFinalDone(a) ==
    /\ pc[a] = "await_kv_final"
    /\ \/ /\ kv' = KvSet(kv, InFlight(a).arg.key, InFlight(a).arg.value)
          /\ statusText' = [statusText EXCEPT ![a] = "DECRYPTING_RESULTS..."]
          /\ nav' = [nav EXCEPT ![a] = "/resume/" \o uuid[a]]
          /\ Logged(a, <<>>)
          /\ pc' = [pc EXCEPT ![a] = "done"]
          /\ UNCHANGED <<failed, fs>>
       \/ /\ Rejected(a, "WRITING_FINAL_RECORD")
          /\ UNCHANGED nav
    /\ UNCHANGED <<file, isProcessing, localVars, response>>
    /\ UNCHANGED <<readerVars, urlVars, loadVars, sideVars>>

(***************************************************************************)
(* The Resume (reader) view.                                               *)
(***************************************************************************)
NoBlob == [kind |-> "none"]

\* the ids the route /resume/:id may carry: those generateUUID can return,
\* and one it never returns
RouteIds == {generateUUID(a) : a \in Audits} \cup {"no-such-id"}

\* fs.read of the path held in a record member: the blob, or nothing
FsRead(files, path) ==
    IF path.t = "str" /\ path.s \in DOMAIN files THEN files[path.s] ELSE NoBlob

\* kv.list('resume:*', true): the entries whose key starts with the prefix
KvList(store, prefix) ==
    {[key |-> k, value |-> store[k]] : k \in {j \in DOMAIN store : j.prefix = prefix}}

\* as ResumeView, but the modules are rendered for every feedback that is
\* not null
ResumeView_NotNull(image, resume, fb) ==
    [preview |-> IF image # "" /\ resume # "" THEN "preview"
                 ELSE "Loading Visuals...",
     analysis |-> IF fb # JNull THEN "modules" ELSE "Synthesizing Metrics"]

\* what the view renders: the preview pane and the analysis pane
ResumeView(image, resume, fb) ==
    [preview |-> IF image # "" /\ resume # "" THEN "preview"
                 ELSE "Loading Visuals...",
     analysis |-> IF Truthy(fb) THEN "modules" ELSE "Synthesizing Metrics"]

\* the effect runs loadResume for the id of the route
StartLoad(id, instance) ==
    \E l \in Loads :
        /\ lpc[l] = "unused"
        /\ \A m \in Loads : m < l => lpc[m] # "unused"
        /\ lpc' = [lpc EXCEPT ![l] = "await_kv_get"]
        /\ lid' = [lid EXCEPT ![l] = id]
        /\ linst' = [linst EXCEPT ![l] = instance]
        /\ UNCHANGED <<ldata, lstop>>

\* the route /resume/:id is entered: the view mounts with fresh state
ReaderOpen ==
    /\ ~mounted
    /\ \E id \in RouteIds :
         /\ rid' = id
         /\ StartLoad(id, inst + 1)
    /\ mounted' = TRUE
    /\ inst' = inst + 1
    /\ resumeUrl' = ""
    /\ imageUrl' = ""
    /\ feedback' = JNull
    /\ UNCHANGED <<storeVars, uploadVars, urlVars, sideVars>>

\* the route changes to another id: the view stays mounted and keeps its
\* state, and the effect runs again
ReaderChangeId ==
    /\ mounted
    /\ \E id \in RouteIds \ {rid} :
         /\ rid' = id
         /\ StartLoad(id, inst)
    /\ UNCHANGED <<mounted, inst, resumeUrl, imageUrl, feedback>>
    /\ UNCHANGED <<storeVars, uploadVars, urlVars, sideVars>>

\* the route is left: the view unmounts and its state is dropped
ReaderClose ==
    /\ mounted
    /\ mounted' = FALSE
    /\ rid' = ""
    /\ resumeUrl' = ""
    /\ imageUrl' = ""
    /\ feedback' = JNull
    /\ UNCHANGED <<inst, storeVars, uploadVars, urlVars, loadVars, sideVars>>

\* a state setter called by invocation l changes the view it was started by
Attached(l) == mounted /\ inst = linst[l]

LoadStops(l, how, why) ==
    /\ lpc' = [lpc EXCEPT ![l] = how]
    /\ lstop' = [lstop EXCEPT ![l] = why]

\* kv.get resolves; the record is parsed and the first fs.read starts
KvGetDone(l) ==
    /\ lpc[l] = "await_kv_get"
    /\ LET resume == KvGet(kv, ResumeKey(lid[l]))
           parsed == JSONParse(resume)
       IN
       IF resume = JNull
       THEN LoadStops(l, "returned", "no_record") /\ UNCHANGED ldata
       ELSE IF ~parsed.ok \/ parsed.val.t = "null"
       THEN LoadStops(l, "rejected", "corrupt") /\ UNCHANGED ldata
       ELSE /\ ldata' = [ldata EXCEPT ![l] = parsed.val]
            /\ lpc' = [lpc EXCEPT ![l] = "await_read_resume"]
            /\ UNCHANGED lstop
    /\ UNCHANGED <<lid, linst, readerVars, urlVars, storeVars, uploadVars, sideVars>>

\* URL.createObjectURL
NewUrl(n) == "blob:" \o ToString(n + 1)

\* fs.read(data.resumePath) resolves
ReadResumeDone(l) ==
    /\ lpc[l] = "await_read_resume"
    /\ \E blob \in {FsRead(fs, Field(ldata[l], "resumePath")), NoBlob} :
         IF blob = NoBlob
         THEN /\ LoadStops(l, "returned", "no_resume_blob")
              /\ UNCHANGED <<resumeUrl, urlVars>>
         ELSE /\ objectUrls' = objectUrls \cup {NewUrl(urlCount)}
              /\ urlCount' = urlCount + 1
              /\ resumeUrl' = IF Attached(l) THEN NewUrl(urlCount) ELSE resumeUrl
              /\ lpc' = [lpc EXCEPT ![l] = "await_read_image"]
              /\ UNCHANGED lstop
    /\ UNCHANGED <<lid, linst, ldata, mounted, inst, rid, imageUrl, feedback>>
    /\ UNCHANGED <<storeVars, uploadVars, sideVars>>

\* fs.read(data.imagePath) resolves
ReadImageDone(l) ==
    /\ lpc[l] = "await_read_image"
    /\ \E blob \in {FsRead(fs, Field(ldata[l], "imagePath")), NoBlob} :
         IF blob = NoBlob
         THEN /\ LoadStops(l, "returned", "no_image_blob")
              /\ UNCHANGED <<imageUrl, feedback, urlVars>>
         ELSE /\ objectUrls' = objectUrls \cup {NewUrl(urlCount)}
              /\ urlCount' = urlCount + 1
              /\ imageUrl' = IF Attached(l) THEN NewUrl(urlCount) ELSE imageUrl
              /\ feedback' = IF Attached(l) THEN Field(ldata[l], "feedback")
                             ELSE feedback
              /\ lpc' = [lpc EXCEPT ![l] = "done"]
              /\ UNCHANGED lstop
    /\ UNCHANGED <<lid, linst, ldata, mounted, inst, rid, resumeUrl>>
    /\ UNCHANGED <<storeVars, uploadVars, sideVars>>

(***************************************************************************)
(* The Home (dashboard) view.                                              *)
(***************************************************************************)
\* the id of a record this program did not write
ForeignId == "foreign"

\* a stored value that is no JSON: a record cut short
CorruptText == Text(<<TLB, TStr("id"), TColon>>)

\* the store is the user's Puter key-value store, which outlives the page:
\* it comes to hold a value that is no JSON under a 'resume:' key
CorruptWrite ==
    /\ ResumeKey(ForeignId) \notin DOMAIN kv
    /\ kv' = KvSet(kv, ResumeKey(ForeignId), CorruptText)
    /\ UNCHANGED <<fs, uploadVars, readerVars, urlVars, loadVars, sideVars>>

\* items?.map((item) => JSON.parse(item.value)): threw is TRUE where one of
\* the calls of JSON.parse throws
ParseItems(items) ==
    IF \E item \in items : ~JSONParse(item.value).ok
    THEN [threw |-> TRUE, list |-> {}]
    ELSE [threw |-> FALSE, list |-> {JSONParse(item.value).val : item \in items}]

\* what the view renders below its header
DashboardView(loading, list) ==
    [spinner |-> loading,
     cards |-> IF ~loading /\ list # {} THEN list ELSE {},
     empty |-> ~loading /\ list = {}]

\* the route / is entered: the view mounts and its effect, if the user is
\* signed in, runs loadResumes up to its await
DashOpen ==
    /\ ~dmounted
    /\ dmounted' = TRUE
    /\ resumes' = {}
    /\ loadingResumes' = isAuthenticated
    /\ dpc' = IF isAuthenticated THEN "await_kv_list" ELSE "idle"
    /\ UNCHANGED <<storeVars, uploadVars, readerVars, urlVars, loadVars>>
    /\ UNCHANGED <<cardVars, wipeVars, tierVars, moreVars>>

\* kv.list('resume:*', true) resolves or rejects; try, catch and finally
KvListDone ==
    /\ dmounted
    /\ dpc = "await_kv_list"
    /\ \/ LET parsed == ParseItems(KvList(kv, "resume:")) IN
          IF parsed.threw
          THEN dpc' = "caught_parse" /\ UNCHANGED resumes
          ELSE dpc' = "done" /\ resumes' = parsed.list
       \/ dpc' = "caught_list" /\ UNCHANGED resumes
    /\ loadingResumes' = FALSE
    /\ UNCHANGED <<dmounted, storeVars, uploadVars, readerVars, urlVars, loadVars>>
    /\ UNCHANGED <<cardVars, wipeVars, tierVars, moreVars>>

\* the route is left: the view unmounts and its state is dropped; what a
\* loadResumes in flight sets afterwards is set on no view
DashClose ==
    /\ dmounted
    /\ dmounted' = FALSE
    /\ dpc' = "idle"
    /\ resumes' = {}
    /\ loadingResumes' = FALSE
    /\ UNCHANGED <<storeVars, uploadVars, readerVars, urlVars, loadVars>>
    /\ UNCHANGED <<cardVars, wipeVars, tierVars, moreVars>>

(***************************************************************************)
(* A ResumeCard of the dashboard.                                          *)
(***************************************************************************)
\* the values of resume.imagePath: the preview paths handleAnalyze records
CardPaths == {PathOf(a, 2) : a \in Audits}

\* the object URL URL.createObjectURL returns to run e of the effect
CardUrl(e) == "blob:card-" \o ToString(e)

\* the effect runs: `let url = ''`, and loadResume up to its await
StartEffect(path) ==
    /\ ecur < MaxEffects
    /\ ecur' = ecur + 1
    /\ epc' = [epc EXCEPT ![ecur + 1] = "await_fs_read"]
    /\ epath' = [epath EXCEPT ![ecur + 1] = path]

\* as Cleanup, but the URL revoked is the one held in the card's state
Cleanup_State(e) ==
    revokes' = IF cardUrl # "" THEN Append(revokes, cardUrl) ELSE revokes

\* the cleanup of run e: `if (url) URL.revokeObjectURL(url)`
Cleanup(e) ==
    revokes' = IF eurl[e] # "" THEN Append(revokes, eurl[e]) ELSE revokes

\* the dashboard renders the card
CardMount ==
    /\ ~cmounted
    /\ \E path \in CardPaths :
         /\ cpath' = path
         /\ StartEffect(path)
    /\ cmounted' = TRUE
    /\ cfirst' = ecur + 1
    /\ cardUrl' = ""
    /\ UNCHANGED <<eurl, created, revokes>>
    /\ UNCHANGED <<storeVars, uploadVars, readerVars, urlVars, loadVars>>
    /\ UNCHANGED <<dashVars, wipeVars, tierVars, moreVars>>

\* a dependency of the effect changes (imagePath, or the fs of the store):
\* the cleanup of the latest run is called and the effect runs again
CardRerun ==
    /\ cmounted
    /\ \E path \in CardPaths :
         /\ cpath' = path
         /\ StartEffect(path)
    /\ Cleanup(ecur)
    /\ UNCHANGED <<cmounted, cfirst, cardUrl, eurl, created>>
    /\ UNCHANGED <<storeVars, uploadVars, readerVars, urlVars, loadVars>>
    /\ UNCHANGED <<dashVars, wipeVars, tierVars, moreVars>>

\* the card is removed: the cleanup of the latest run is called and the
\* card's state is dropped
CardUnmount ==
    /\ cmounted
    /\ Cleanup(ecur)
    /\ cmounted' = FALSE
    /\ cpath' = ""
    /\ cardUrl' = ""
    /\ UNCHANGED <<cfirst, ecur, epc, epath, eurl, created>>
    /\ UNCHANGED <<storeVars, uploadVars, readerVars, urlVars, loadVars>>
    /\ UNCHANGED <<dashVars, wipeVars, tierVars, moreVars>>

\* setResumeUrl called by run e changes the card the run was started by
CardAttached(e) == cmounted /\ e >= cfirst

\* fs.read(imagePath) of run e resolves with a blob or with nothing, or rejects
CardReadDone(e) ==
    /\ epc[e] = "await_fs_read"
    /\ \/ \E blob \in {FsRead(fs, JStr(epath[e])), NoBlob} :
            IF blob = NoBlob
            THEN /\ epc' = [epc EXCEPT ![e] = "returned"]
                 /\ UNCHANGED <<eurl, created, cardUrl>>
            ELSE /\ eurl' = [eurl EXCEPT ![e] = CardUrl(e)]
                 /\ created' = created \cup {CardUrl(e)}
                 /\ cardUrl' = IF CardAttached(e) THEN CardUrl(e) ELSE cardUrl
                 /\ epc' = [epc EXCEPT ![e] = "done"]
       \/ /\ epc' = [epc EXCEPT ![e] = "caught"]
          /\ UNCHANGED <<eurl, created, cardUrl>>
    /\ UNCHANGED <<cmounted, cpath, cfirst, ecur, epath, revokes>>
    /\ UNCHANGED <<storeVars, uploadVars, readerVars, urlVars, loadVars>>
    /\ UNCHANGED <<dashVars, wipeVars, tierVars, moreVars>>

(***************************************************************************)
(* The score panels: ATS, ScoreBadge and the Category row of Summary.      *)
(***************************************************************************)
\* ATS: the subtitle of the configuration chosen for a score
ATS(score) ==
    IF score >= 70 THEN "Great Job!"
    ELSE IF score >= 50 THEN "Good Start"
    ELSE "Needs Improvement"

\* ScoreBadge: the label of the configuration chosen for a score
ScoreBadge(score) ==
    IF score > 70 THEN "Strong Match"
    ELSE IF score > 49 THEN "Mid-Range"
    ELSE "Needs Logic"

\* Category: textColor
Category(score) ==
    IF score > 70 THEN "text-emerald-600"
    ELSE IF score > 49 THEN "text-amber-600"
    ELSE "text-rose-600"

\* the panels are rendered with a score
RenderPanels ==
    /\ \E score \in Scores :
         panel' = [score |-> score, ats |-> ATS(score),
                   badge |-> ScoreBadge(score), category |-> Category(score)]
    /\ UNCHANGED <<storeVars, uploadVars, readerVars, urlVars, loadVars>>
    /\ UNCHANGED <<dashVars, cardVars, wipeVars, moreVars>>

(***************************************************************************)
(* The WipeApp view.                                                       *)
(***************************************************************************)
\* fs.readDir("./"): the paths of the files in the store
ReadDir(files) == DOMAIN files

\* the view mounts; its effect starts loadFiles once the store has loaded
\* and the user is signed in
WipeOpen ==
    /\ ~wmounted
    /\ wmounted' = TRUE
    /\ wload' = (~isLoading /\ isAuthenticated)
    /\ wfiles' = {}
    /\ isWiping' = FALSE
    /\ isDialogOpen' = FALSE
    /\ UNCHANGED <<wpc, wdetached, wtargets>>
    /\ UNCHANGED <<storeVars, uploadVars, readerVars, urlVars, loadVars>>
    /\ UNCHANGED <<dashVars, cardVars, tierVars, moreVars>>

\* the loadFiles started by the effect ends: fs.readDir resolves with the
\* items or with nothing, or rejects and the catch logs
LoadFilesDone ==
    /\ wmounted
    /\ wload
    /\ wload' = FALSE
    /\ \E items \in {ReadDir(fs), {}, wfiles} : wfiles' = items
    /\ UNCHANGED <<wmounted, wpc, wdetached, wtargets, isWiping, isDialogOpen>>
    /\ UNCHANGED <<storeVars, uploadVars, readerVars, urlVars, loadVars>>
    /\ UNCHANGED <<dashVars, cardVars, tierVars, moreVars>>

\* the Execute Wipe button: disabled={isWiping || files.length === 0}
OpenDialog ==
    /\ wmounted
    /\ ~isDialogOpen
    /\ ~isWiping
    /\ wfiles # {}
    /\ isDialogOpen' = TRUE
    /\ UNCHANGED <<wmounted, wload, wpc, wdetached, wtargets, wfiles, isWiping>>
    /\ UNCHANGED <<storeVars, uploadVars, readerVars, urlVars, loadVars>>
    /\ UNCHANGED <<dashVars, cardVars, tierVars, moreVars>>

\* onClose of the dialog: the backdrop and Abort Mission, disabled while wiping
CloseDialog ==
    /\ wmounted
    /\ isDialogOpen
    /\ ~isWiping
    /\ isDialogOpen' = FALSE
    /\ UNCHANGED <<wmounted, wload, wpc, wdetached, wtargets, wfiles, isWiping>>
    /\ UNCHANGED <<storeVars, uploadVars, readerVars, urlVars, loadVars>>
    /\ UNCHANGED <<dashVars, cardVars, tierVars, moreVars>>

\* Confirm Deletion: handleExecuteWipe up to its first await
handleExecuteWipe ==
    /\ wmounted
    /\ isDialogOpen
    /\ ~isWiping
    /\ wpc = "idle"
    /\ isWiping' = TRUE
    /\ wtargets' = wfiles
    /\ wpc' = "await_deletes"
    /\ wdetached' = FALSE
    /\ UNCHANGED <<wmounted, wload, wfiles, isDialogOpen>>
    /\ UNCHANGED <<storeVars, uploadVars, readerVars, urlVars, loadVars>>
    /\ UNCHANGED <<dashVars, cardVars, tierVars, moreVars>>

\* as WipeFinally, but without the finally block
WipeFinally_NoFinally ==
    /\ wpc' = "idle"
    /\ UNCHANGED isWiping

\* catch and finally of handleExecuteWipe: setIsWiping(false)
WipeFinally ==
    /\ wpc' = "idle"
    /\ isWiping' = IF wdetached THEN isWiping ELSE FALSE

\* Promise.all of the fs.delete calls settles: every file was deleted and
\* kv.flush starts, or one delete was rejected
DeletesDone ==
    /\ wpc = "await_deletes"
    /\ \E deleted \in SUBSET wtargets :
         /\ fs' = [p \in DOMAIN fs \ deleted |-> fs[p]]
         /\ IF deleted = wtargets
            THEN wpc' = "await_flush" /\ UNCHANGED isWiping
            ELSE WipeFinally
    /\ UNCHANGED <<kv, wmounted, wload, wdetached, wtargets, wfiles, isDialogOpen>>
    /\ UNCHANGED <<uploadVars, readerVars, urlVars, loadVars>>
    /\ UNCHANGED <<dashVars, cardVars, tierVars, moreVars>>

\* kv.flush resolves and loadFiles starts, or kv.flush rejects
FlushDone ==
    /\ wpc = "await_flush"
    /\ \/ /\ kv' = [k \in {} |-> JNull]
          /\ wpc' = "await_load_files"
          /\ UNCHANGED isWiping
       \/ /\ WipeFinally
          /\ UNCHANGED kv
    /\ UNCHANGED <<fs, wmounted, wload, wdetached, wtargets, wfiles, isDialogOpen>>
    /\ UNCHANGED <<uploadVars, readerVars, urlVars, loadVars>>
    /\ UNCHANGED <<dashVars, cardVars, tierVars, moreVars>>

\* the loadFiles awaited by handleExecuteWipe ends; setIsDialogOpen(false)
ReloadDone ==
    /\ wpc = "await_load_files"
    /\ \E items \in {ReadDir(fs), {}, wfiles} :
         wfiles' = IF wdetached THEN wfiles ELSE items
    /\ isDialogOpen' = IF wdetached THEN isDialogOpen ELSE FALSE
    /\ WipeFinally
    /\ UNCHANGED <<wmounted, wload, wdetached, wtargets>>
    /\ UNCHANGED <<storeVars, uploadVars, readerVars, urlVars, loadVars>>
    /\ UNCHANGED <<dashVars, cardVars, tierVars, moreVars>>

\* the route is left: the view's state is dropped; a handleExecuteWipe in
\* flight goes on, and what it sets afterwards is set on no view
WipeClose ==
    /\ wmounted
    /\ wmounted' = FALSE
    /\ wload' = FALSE
    /\ wfiles' = {}
    /\ isWiping' = FALSE
    /\ isDialogOpen' = FALSE
    /\ wdetached' = (wpc # "idle")
    /\ UNCHANGED <<wpc, wtargets>>
    /\ UNCHANGED <<storeVars, uploadVars, readerVars, urlVars, loadVars>>
    /\ UNCHANGED <<dashVars, cardVars, tierVars, moreVars>>

(***************************************************************************)
(* The Accordion component.                                                *)
(***************************************************************************)
\* prev.includes(id)
Includes(prev, id) == \E i \in DOMAIN prev : prev[i] = id

\* as ToggleItem, but an item is added without looking at prev
ToggleItem_Append(prev, id, multiple) ==
    IF multiple THEN Append(prev, id)
    ELSE <<id>>

\* as ToggleItem, but every other item is closed in both modes
ToggleItem_Single(prev, id, multiple) ==
    IF Includes(prev, id) THEN <<>> ELSE <<id>>

\* the updater toggleItem(id) passes to setActiveItems
ToggleItem(prev, id, multiple) ==
    IF multiple
    THEN IF Includes(prev, id)
         THEN SelectSeq(prev, LAMBDA item : item # id)
         ELSE Append(prev, id)
    ELSE IF Includes(prev, id) THEN <<>> ELSE <<id>>

\* the Accordion mounts: useState(defaultOpen ? [defaultOpen] : [])
AccordionMount ==
    /\ ~amounted
    /\ amounted' = TRUE
    /\ allowMultiple' \in BOOLEAN
    /\ \E defaultOpen \in Items \cup {""} :
         activeItems' = IF defaultOpen # "" THEN <<defaultOpen>> ELSE <<>>
    /\ UNCHANGED <<storeVars, uploadVars, readerVars, urlVars, loadVars>>
    /\ UNCHANGED <<dashVars, cardVars, wipeVars, tierVars, pageVars>>

\* a header is clicked: toggleItem(itemId)
toggleItem ==
    /\ amounted
    /\ \E id \in Items : activeItems' = ToggleItem(activeItems, id, allowMultiple)
    /\ UNCHANGED <<amounted, allowMultiple>>
    /\ UNCHANGED <<storeVars, uploadVars, readerVars, urlVars, loadVars>>
    /\ UNCHANGED <<dashVars, cardVars, wipeVars, tierVars, pageVars>>

\* the Accordion unmounts and its state is dropped
AccordionUnmount ==
    /\ amounted
    /\ amounted' = FALSE
    /\ allowMultiple' = FALSE
    /\ activeItems' = <<>>
    /\ UNCHANGED <<storeVars, uploadVars, readerVars, urlVars, loadVars>>
    /\ UNCHANGED <<dashVars, cardVars, wipeVars, tierVars, pageVars>>

(***************************************************************************)
(* The session, the location and the root Layout.  The store behind         *)
(* usePuterStore is outside the views: what they see of it is the pair      *)
(* isLoading, auth.isAuthenticated, which may take any value at any time.   *)
(* A view is rendered for the route of the location; navigate() changes the *)
(* location, after which the view of the old route unmounts and the view of *)
(* the new one mounts.                                                      *)
(***************************************************************************)
\* no routed view is on screen
NoView == ~dmounted /\ ~mounted /\ ~wmounted /\ ~authOpen

\* the effect of Layout without the ref
LayoutEffect_NoRef ==
    /\ effectRuns < MaxRuns
    /\ effectRuns' = effectRuns + 1
    /\ initCalls' = initCalls + 1
    /\ hasInitialized' = TRUE
    /\ UNCHANGED <<storeVars, uploadVars, readerVars, urlVars, loadVars>>
    /\ UNCHANGED <<dashVars, cardVars, wipeVars, tierVars, accVars, sessVars, routeVars>>

\* the effect of Layout runs: on mount, a second time under Strict Mode, and
\* whenever the reference of init changes
LayoutEffect ==
    /\ effectRuns < MaxRuns
    /\ effectRuns' = effectRuns + 1
    /\ IF ~hasInitialized
       THEN initCalls' = initCalls + 1 /\ hasInitialized' = TRUE
       ELSE UNCHANGED <<initCalls, hasInitialized>>
    /\ UNCHANGED <<storeVars, uploadVars, readerVars, urlVars, loadVars>>
    /\ UNCHANGED <<dashVars, cardVars, wipeVars, tierVars, accVars, sessVars, routeVars>>

\* the store changes what the views read; the effects that depend on these
\* values run again in the views on screen: Home starts loadResumes when the
\* user has become signed in, WipeApp starts loadFiles when the store has
\* loaded and the user is signed in
StoreChanges ==
    /\ \E loading, authed \in BOOLEAN :
         /\ <<loading, authed>> # <<isLoading, isAuthenticated>>
         /\ isLoading' = loading
         /\ isAuthenticated' = authed
         /\ IF dmounted /\ authed /\ ~isAuthenticated
            THEN /\ loadingResumes' = TRUE
                 /\ dpc' = "await_kv_list"
                 /\ UNCHANGED <<dmounted, resumes>>
            ELSE UNCHANGED dashVars
         /\ IF wmounted /\ ~loading /\ authed
            THEN /\ wload' = TRUE
                 /\ UNCHANGED <<wmounted, wpc, wdetached, wtargets, wfiles, isWiping,
                                isDialogOpen>>
            ELSE UNCHANGED wipeVars
    /\ hops' = 0
    /\ UNCHANGED <<route, nextParam, authOpen>>
    /\ UNCHANGED <<storeVars, uploadVars, readerVars, urlVars, loadVars>>
    /\ UNCHANGED <<cardVars, tierVars, accVars, layoutVars>>

\* the user follows a link or enters a location
UserNavigates ==
    /\ \E to \in Routes :
         /\ route' = to
         /\ nextParam' \in IF to = "/auth" THEN Routes \cup {""} ELSE {""}
    /\ hops' = 0
    /\ UNCHANGED authOpen
    /\ UNCHANGED <<storeVars, uploadVars, readerVars, urlVars, loadVars>>
    /\ UNCHANGED <<dashVars, cardVars, wipeVars, tierVars, accVars, sessVars, layoutVars>>

\* navigate(to) called by an effect
Redirect(to, next) ==
    /\ hops < MaxHops
    /\ hops' = hops + 1
    /\ route' = to
    /\ nextParam' = next
    /\ UNCHANGED authOpen
    /\ UNCHANGED <<storeVars, uploadVars, readerVars, urlVars, loadVars>>
    /\ UNCHANGED <<dashVars, cardVars, wipeVars, tierVars, accVars, sessVars, layoutVars>>

\* the access guard of Home
HomeGuard ==
    /\ dmounted /\ route = "/"
    /\ ~isLoading /\ ~isAuthenticated
    /\ Redirect("/auth", "/")

\* the auth guard of Resume
ResumeGuard ==
    /\ mounted /\ route = "/resume"
    /\ ~isLoading /\ ~isAuthenticated
    /\ Redirect("/auth", "/resume")

\* the else branch of the effect of WipeApp
WipeGuard ==
    /\ wmounted /\ route = "/wipe"
    /\ ~(~isLoading /\ isAuthenticated)
    /\ ~isLoading /\ ~isAuthenticated
    /\ Redirect("/auth", "/wipe")

\* the condition of the effect of Auth, were it not to look at the session
AuthRedirects_Always(loading, authed, next) == next # ""

\* the condition of the effect of Auth
AuthRedirects(loading, authed, next) == ~loading /\ authed /\ next # ""

\* the effect of Auth
AuthEffect ==
    /\ authOpen /\ route = "/auth"
    /\ AuthRedirects(isLoading, isAuthenticated, nextParam)
    /\ Redirect(nextParam, "")

\* the Auth view follows the location
AuthOpen ==
    /\ route = "/auth" /\ NoView
    /\ authOpen' = TRUE
    /\ UNCHANGED <<route, nextParam, hops>>
    /\ UNCHANGED <<storeVars, uploadVars, readerVars, urlVars, loadVars>>
    /\ UNCHANGED <<dashVars, cardVars, wipeVars, tierVars, accVars, sessVars, layoutVars>>

AuthClose ==
    /\ authOpen /\ route # "/auth"
    /\ authOpen' = FALSE
    /\ UNCHANGED <<route, nextParam, hops>>
    /\ UNCHANGED <<storeVars, uploadVars, readerVars, urlVars, loadVars>>
    /\ UNCHANGED <<dashVars, cardVars, wipeVars, tierVars, accVars, sessVars, layoutVars>>

\* the routed views follow the location; the location is a route without its
\* parameters, so the reader is entered and left, never moved to another id
RouteStep ==
    \/ route = "/" /\ NoView /\ DashOpen
    \/ route # "/" /\ DashClose
    \/ route = "/resume" /\ NoView /\ ReaderOpen
    \/ route # "/resume" /\ ReaderClose
    \/ route = "/wipe" /\ NoView /\ WipeOpen
    \/ route # "/wipe" /\ WipeClose
    \/ AuthOpen
    \/ AuthClose

(***************************************************************************)
(* The score of a ResumeCard.                                              *)
(***************************************************************************)
\* the default of the prop score of ScoreCircle
DefaultScore == 75

\* feedback.overallScore, the prop the card passes to ScoreCircle: reading a
\* member of null or undefined throws, and of any other value that has no
\* such member gives undefined
ScoreProp(resume) ==
    LET fb == Field(resume, "feedback") IN
    IF fb.t \in {"null", "undefined"}
    THEN [threw |-> TRUE, val |-> JUndefined]
    ELSE [threw |-> FALSE, val |-> Field(fb, "overallScore")]

\* ({ score = 75 }) => ... {score}: the value ScoreCircle shows
ScoreCircle(score) == IF score = JUndefined THEN JNum(DefaultScore) ELSE score

(***************************************************************************)
(* Specifications.                                                         *)
(***************************************************************************)
AuditStep(a) ==
    \/ handleFileSelect(a)
    \/ handleSubmit(a)
    \/ UploadSourceDone(a)
    \/ RenderDone(a)
    \/ UploadImageDone(a)
    \/ KvInitialDone(a)
    \/ FeedbackDone(a)
    \/ KvFinalDone(a)

ReaderStep ==
    \/ ReaderOpen
    \/ ReaderChangeId
    \/ ReaderClose
    \/ \E l \in Loads : KvGetDone(l) \/ ReadResumeDone(l) \/ ReadImageDone(l)

\* the Upload views, each running its pipeline
Next == \E a \in Audits : AuditStep(a)

Spec == Init /\ [][Next]_vars

\* one Upload view, and the reader view pointed at any id at any time
NextReader == AuditStep(1) \/ ReaderStep

SpecReader == Init /\ [][NextReader]_vars

DashStep ==
    \/ DashOpen
    \/ KvListDone
    \/ DashClose

\* one Upload view, a store that may hold a corrupt value, and the dashboard
NextDash == AuditStep(1) \/ CorruptWrite \/ DashStep

SpecDash == Init /\ [][NextDash]_vars

CardStep ==
    \/ CardMount
    \/ CardRerun
    \/ CardUnmount
    \/ \E e \in Effects : CardReadDone(e)

\* one Upload view, and a ResumeCard
NextCard == AuditStep(1) \/ CardStep

SpecCard == Init /\ [][NextCard]_vars

\* the score panels rendered with any score
NextPanels == RenderPanels

SpecPanels == Init /\ [][NextPanels]_vars

WipeStep ==
    \/ WipeOpen
    \/ LoadFilesDone
    \/ OpenDialog
    \/ CloseDialog
    \/ handleExecuteWipe
    \/ DeletesDone
    \/ FlushDone
    \/ ReloadDone
    \/ WipeClose

\* one Upload view, and the WipeApp view
NextWipe == AuditStep(1) \/ WipeStep

SpecWipe == Init /\ [][NextWipe]_vars

\* an Accordion
NextAccordion ==
    \/ AccordionMount
    \/ toggleItem
    \/ AccordionUnmount

SpecAccordion == Init /\ [][NextAccordion]_vars

\* the Upload view of /upload up to the first await of handleAnalyze
UploadStep ==
    \/ route = "/upload" /\ NoView /\ handleFileSelect(1)
    \/ route = "/upload" /\ NoView /\ handleSubmit(1)

\* a page load: the Layout, the session, the location and the routed views.
\* No pipeline gets past its first await, so the stores stay empty and a
\* load of the reader ends at its kv.get
NextPage ==
    \/ StoreChanges
    \/ UserNavigates
    \/ HomeGuard
    \/ ResumeGuard
    \/ WipeGuard
    \/ AuthEffect
    \/ RouteStep
    \/ KvListDone
    \/ LoadFilesDone
    \/ \E l \in Loads : KvGetDone(l)
    \/ UploadStep

SpecPage == InitPage /\ [][NextPage]_vars

\* the root Layout, whatever the session and the location do
NextLayout ==
    \/ LayoutEffect
    \/ StoreChanges
    \/ UserNavigates

SpecLayout == InitPage /\ [][NextLayout]_vars

(***************************************************************************)
(* Vocabulary of the properties.                                           *)
(***************************************************************************)
\* the record stored under the key of id, parsed; undefined if there is none
StoredRecord(id) ==
    IF ResumeKey(id) \in DOMAIN kv THEN JSONParse(kv[ResumeKey(id)]).val
    ELSE JUndefined

\* the store holds a record for id whose feedback is the empty value
Pending(id) ==
    /\ ResumeKey(id) \in DOMAIN kv
    /\ Field(StoredRecord(id), "feedback") = JStr("")

\* the store holds a record for id whose feedback is not the empty value
HasFeedback(id) ==
    /\ ResumeKey(id) \in DOMAIN kv
    /\ Field(StoredRecord(id), "feedback") # JStr("")

\* ai.feedback has resolved to a response
Answered(a) == response[a] \notin {NoResponse, NullResponse}

\* the text of the response is JSON
ParsesAsJson(content) ==
    ~FeedbackText(content).threw /\ JSONParse(FeedbackText(content).text).ok

\* a start and its end
Call(op, arg) == <<Ev("start", op, arg), Ev("end", op, arg)>>

\* the calls started so far, in order
Started(a) ==
    LET s == SelectSeq(calls[a], LAMBDA e : e.ev = "start")
    IN [i \in 1..Len(s) |-> s[i].op]

StageCalls == <<"fs.upload", "convertPdfToImage", "fs.upload", "kv.set",
                "ai.feedback", "kv.set">>

Stages == <<"UPLOADING_SOURCE", "RENDERING_PREVIEW", "UPLOADING_PREVIEW",
            "WRITING_INITIAL_RECORD", "SCORING", "WRITING_FINAL_RECORD">>

\* the number of calls an invocation that stopped at a stage has started
CallsUpTo(stage) ==
    IF stage = "PARSING" THEN 5
    ELSE CHOOSE i \in 1..Len(Stages) : Stages[i] = stage

(***************************************************************************)
(* C1: a run of handleAnalyze that reaches navigate has issued exactly     *)
(* fs.upload(source PDF), convertPdfToImage, fs.upload(preview image),     *)
(* kv.set(initial record), ai.feedback, kv.set(final record), in this      *)
(* order, each started after the previous one has ended.                   *)
(***************************************************************************)
C1_CallsInOrder ==
    \A a \in Audits :
        nav[a] # "" =>
            calls[a] =
                Call("fs.upload", [file |-> PdfOf(args[a].file)])
                \o Call("convertPdfToImage", [file |-> PdfOf(args[a].file)])
                \o Call("fs.upload", [file |-> PngOf(args[a].file)])
                \o Call("kv.set",
                        [key |-> ResumeKey(uuid[a]),
                         value |-> JSONStringify(WithFeedback(data[a], JStr("")))])
                \o Call("ai.feedback",
                        [path |-> uploadedFile[a],
                         instructions |-> [role |-> args[a].jobTitle,
                                           requirements |-> args[a].jobDescription]])
                \o Call("kv.set",
                        [key |-> ResumeKey(uuid[a]),
                         value |-> JSONStringify(data[a])])

C1_Witness ==
    \E a \in Audits : nav[a] # "" /\ pc[a] = "done" /\ Len(calls[a]) = 12

(***************************************************************************)
(* C2: when the scoring response does not parse as JSON the invocation     *)
(* fails, it has issued one kv.set only, and the record under its key is   *)
(* in its pending form, in this and every later state.                     *)
(***************************************************************************)
C2_UnparseableLeavesPending ==
    \A a \in Audits :
        (Answered(a) /\ ~ParsesAsJson(response[a])) =>
            /\ pc[a] = "rejected"
            /\ nav[a] = ""
            /\ Started(a) = SubSeq(StageCalls, 1, 5)
            /\ Pending(uuid[a])
            /\ kv[ResumeKey(uuid[a])] = JSONStringify(WithFeedback(data[a], JStr("")))

C2_Witness ==
    \E a \in Audits :
        /\ Answered(a) /\ ~ParsesAsJson(response[a])
        /\ response[a].kind = "string"
        /\ Pending(uuid[a])

\* a response value that carries a numeric overallScore
HasNumericScore(v) == Field(v, "overallScore").t = "num"

(***************************************************************************)
(* C3: a record shows feedback only if the scoring response was JSON with  *)
(* a numeric overallScore; after any other response the record of that id  *)
(* shows feedback absent.                                                  *)
(***************************************************************************)
C3_OnlyValidFeedbackPersisted ==
    \A a \in Audits :
        (uuid[a] # "" /\ HasFeedback(uuid[a])) =>
            /\ Answered(a)
            /\ ParsesAsJson(response[a])
            /\ HasNumericScore(ParseResponse(response[a]).val)

(***************************************************************************)
(* C4: the feedback of a stored record is absent when the record is        *)
(* created, changes at most once, from absent to present, and only after   *)
(* ai.feedback has returned a result to the invocation that owns the key;  *)
(* once present it never changes again.                                    *)
(***************************************************************************)
FeedbackIn(store, k) == Field(JSONParse(store[k]).val, "feedback")

C4_FeedbackSetOnce ==
    [][ /\ DOMAIN kv \subseteq DOMAIN kv'
        /\ \A k \in DOMAIN kv' :
             IF k \in DOMAIN kv
             THEN /\ FeedbackIn(kv, k) # JStr("") => FeedbackIn(kv', k) = FeedbackIn(kv, k)
                  /\ FeedbackIn(kv', k) # FeedbackIn(kv, k) =>
                         \E a \in Audits : ResumeKey(uuid[a]) = k /\ Answered(a)
             ELSE FeedbackIn(kv', k) = JStr("") ]_vars

C4_Witness ==
    \E a \in Audits : pc[a] = "done" /\ HasFeedback(uuid[a])

(***************************************************************************)
(* C5: an invocation starts each stage's call at most once, in stage       *)
(* order, and once a stage has failed it starts no further call and does   *)
(* not navigate.                                                           *)
(***************************************************************************)
C5_NoRetry ==
    \A a \in Audits :
        /\ Len(Started(a)) <= Len(StageCalls)
        /\ Started(a) = SubSeq(StageCalls, 1, Len(Started(a)))
        /\ failed[a] # "" =>
               /\ Len(calls[a]) = 2 * CallsUpTo(failed[a])
               /\ InFlight(a).ev = "end"
               /\ nav[a] = ""

C5_Witness ==
    \E a, b \in Audits :
        /\ failed[a] = "UPLOADING_SOURCE" /\ pc[a] = "returned"
        /\ failed[b] = "PARSING"

(***************************************************************************)
(* C6: after a failure at any stage, what the earlier stages stored is     *)
(* still in the store: the source file, the preview image and the pending  *)
(* record.                                                                 *)
(***************************************************************************)
C6_NoRollback ==
    \A a \in Audits :
        failed[a] # "" =>
            /\ uploadedFile[a] # "" =>
                   /\ uploadedFile[a] \in DOMAIN fs
                   /\ fs[uploadedFile[a]] = PdfOf(args[a].file)
            /\ uploadedImage[a] # "" =>
                   /\ uploadedImage[a] \in DOMAIN fs
                   /\ fs[uploadedImage[a]] = PngOf(args[a].file)
            /\ CallsUpTo(failed[a]) >= 5 =>
                   /\ Pending(uuid[a])
                   /\ Field(StoredRecord(uuid[a]), "resumePath") = JStr(uploadedFile[a])
                   /\ Field(StoredRecord(uuid[a]), "imagePath") = JStr(uploadedImage[a])

C6_Witness ==
    \E a \in Audits :
        /\ failed[a] = "SCORING" /\ pc[a] = "returned"
        /\ Pending(uuid[a])
        /\ uploadedImage[a] \in DOMAIN fs

(***************************************************************************)
(* C7: after a failure at any stage the status line of the Upload view     *)
(* shows an error label, and the labels of different stages differ.        *)
(***************************************************************************)
ErrorLabels == {"CRITICAL_ERROR: UPLOAD_FAILED", "CRITICAL_ERROR: RENDER_FAILED",
                "CRITICAL_ERROR: TRANSMISSION_FAILED", "CRITICAL_ERROR: AI_TIMEOUT"}

C7_StageErrorShown ==
    /\ \A a \in Audits :
           failed[a] # "" =>
               DisplayedStatus(isProcessing[a], statusText[a])
                   \in {"> " \o l : l \in ErrorLabels}
    /\ \A a, b \in Audits :
           (failed[a] # "" /\ failed[b] # "" /\ failed[a] # failed[b]) =>
               statusText[a] # statusText[b]

(***************************************************************************)
(* C8: while the scoring call of an invocation is in flight, the store     *)
(* holds the record of its id with feedback absent, under a key the        *)
(* dashboard's listing of 'resume:' keys returns.                          *)
(***************************************************************************)
ScoringInFlight(a) ==
    /\ calls[a] # <<>>
    /\ InFlight(a).ev = "start"
    /\ InFlight(a).op = "ai.feedback"

C8_PendingWhileScoring ==
    \A a \in Audits :
        ScoringInFlight(a) =>
            /\ Pending(uuid[a])
            /\ \E item \in KvList(kv, "resume:") :
                 /\ item.key = ResumeKey(uuid[a])
                 /\ Field(JSONParse(item.value).val, "feedback") = JStr("")

C8_Witness ==
    \E a \in Audits : ScoringInFlight(a) /\ pc[a] = "await_feedback"

(***************************************************************************)
(* C9: a load that reads the record of an id whose audit has succeeded     *)
(* gets a record whose companyName, jobTitle and jobDescription are the    *)
(* submitted values and whose feedback.overallScore is a number in 0..100. *)
(***************************************************************************)
SubmittedContext(d, a) ==
    /\ Field(d, "companyName") = JStr(args[a].companyName)
    /\ Field(d, "jobTitle") = JStr(args[a].jobTitle)
    /\ Field(d, "jobDescription") = JStr(args[a].jobDescription)

ScoreInRange(d) ==
    LET score == Field(Field(d, "feedback"), "overallScore")
    IN score.t = "num" /\ score.n \in 0..100

C9_RoundTrip ==
    [][ \A l \in Loads : \A a \in Audits :
          ( /\ pc[a] = "done" /\ uuid[a] = lid[l]
            /\ lpc[l] = "await_kv_get" /\ lpc'[l] = "await_read_resume" ) =>
              /\ SubmittedContext(ldata'[l], a)
              /\ ScoreInRange(ldata'[l]) ]_vars

(***************************************************************************)
(* C10: a load of an id that has no record ends without an exception and   *)
(* leaves the view showing something other than what it shows while a load *)
(* is in progress.                                                         *)
(***************************************************************************)
C10_NotFoundSurfaced ==
    \A l \in Loads :
        (lstop[l] = "no_record" /\ Attached(l) /\ rid = lid[l]) =>
            /\ lpc[l] = "returned"
            /\ ResumeView(imageUrl, resumeUrl, feedback) # ResumeView("", "", JNull)

\* the records under 'resume:' keys whose value is JSON
WellFormedRecords ==
    {JSONParse(item.value).val :
        item \in {i \in KvList(kv, "resume:") : JSONParse(i.value).ok}}

(***************************************************************************)
(* C11: a stored value that is no JSON is fatal for its id only: a         *)
(* dashboard listing that ends while the store holds such a value still    *)
(* shows a card for every well-formed record it was given.                 *)
(***************************************************************************)
C11_CorruptRecordIsolated ==
    [][ ( /\ dpc = "await_kv_list"
          /\ dpc' \in {"done", "caught_parse"} ) =>
            DashboardView(loadingResumes', resumes').cards = WellFormedRecords ]_vars

(***************************************************************************)
(* C12: once the reader view is gone, none of the object URLs it created   *)
(* for the source PDF and the preview image is still unrevoked.            *)
(***************************************************************************)
C12_ReaderUrlsReleased ==
    ~mounted => objectUrls = {}

\* the cleanup of run e has been called
CleanedUp(e) == e < ecur \/ (e = ecur /\ ~cmounted)

\* the number of calls of URL.revokeObjectURL with url
TimesRevoked(url) == Cardinality({i \in DOMAIN revokes : revokes[i] = url})

(***************************************************************************)
(* C13: whatever the sequence of mounts, dependency changes and unmounts   *)
(* of a ResumeCard, URL.revokeObjectURL is called at most once with each   *)
(* object URL, and only with object URLs the card created.                 *)
(***************************************************************************)
C13_RevokedAtMostOnce ==
    /\ \A url \in created : TimesRevoked(url) <= 1
    /\ \A i \in DOMAIN revokes : revokes[i] \in created

C13_Witness ==
    /\ Len(revokes) = 2
    /\ ~cmounted
    /\ ecur = MaxEffects

(***************************************************************************)
(* C20: every object URL a run of the ResumeCard effect creates is revoked *)
(* once the run has been cleaned up (the card was unmounted, or imagePath  *)
(* changed), also when the cleanup was called before fs.read resolved.     *)
(***************************************************************************)
C20_CardUrlsReleased ==
    \A e \in Effects :
        (CleanedUp(e) /\ eurl[e] # "") => TimesRevoked(eurl[e]) = 1

(***************************************************************************)
(* C14: when a load of the reader view ends with a record whose feedback   *)
(* is the empty value of the initial record, the view shows its pending    *)
(* pane; and whenever the view shows the Summary, ATS and Details modules, *)
(* its feedback is the feedback of a record one of its loads read, and is  *)
(* not the empty value.                                                    *)
(***************************************************************************)
C14_PendingShown ==
    /\ [][ \A l \in Loads :
             ( /\ lpc[l] = "await_read_image" /\ lpc'[l] = "done"
               /\ Attached(l)
               /\ Field(ldata[l], "feedback") = JStr("") ) =>
                 ResumeView(imageUrl', resumeUrl', feedback').analysis
                     = "Synthesizing Metrics" ]_vars
    /\ [](ResumeView(imageUrl, resumeUrl, feedback).analysis = "modules" =>
             /\ feedback \notin {JStr(""), JNull, JUndefined}
             /\ \E l \in Loads :
                  /\ lpc[l] = "done" /\ linst[l] = inst
                  /\ Field(ldata[l], "feedback") = feedback)

C14_Witness ==
    \E l \in Loads :
        /\ lpc[l] = "done" /\ Attached(l) /\ rid = lid[l]
        /\ Field(ldata[l], "feedback") = JStr("")
        /\ pc[1] = "await_feedback"
        /\ ResumeView(imageUrl, resumeUrl, feedback) =
               [preview |-> "preview", analysis |-> "Synthesizing Metrics"]

\* the top tier of each panel
TopTier == [ats |-> "Great Job!", badge |-> "Strong Match",
            category |-> "text-emerald-600"]

(***************************************************************************)
(* C15: the ATS panel, ScoreBadge and the Category colour each put a score *)
(* of 70 or more in their top tier and a score below 70 in a lower tier.   *)
(***************************************************************************)
C15_TopTierFrom70 ==
    panel # NoPanel =>
        /\ panel.ats = TopTier.ats <=> panel.score >= 70
        /\ panel.badge = TopTier.badge <=> panel.score >= 70
        /\ panel.category = TopTier.category <=> panel.score >= 70

\* invocation a has been answered by a kv.set for key k
Wrote(a, k) ==
    \E i \in DOMAIN calls[a] :
        calls[a][i] = [calls[a][i] EXCEPT !.ev = "end", !.op = "kv.set"]
        /\ calls[a][i].arg.key = k

\* the invocation whose awaited kv.set resolves in this step
Writes(a) ==
    /\ pc[a] \in {"await_kv_initial", "await_kv_final"}
    /\ pc'[a] \notin {pc[a], "rejected"}

(***************************************************************************)
(* C16: with several handleAnalyze invocations in flight, a kv.set changes *)
(* the value of its own key only, that key is built from the id the        *)
(* invocation generated, and no other invocation has written or writes to  *)
(* that key.                                                               *)
(***************************************************************************)
C16_OwnKeyOnly ==
    [][ \A a \in Audits :
          Writes(a) =>
            /\ \A k \in DOMAIN kv' :
                 (k \notin DOMAIN kv \/ kv'[k] # kv[k]) => k = ResumeKey(uuid[a])
            /\ \A k \in DOMAIN kv : k \in DOMAIN kv'
            /\ \A b \in Audits \ {a} :
                 /\ ~Wrote(b, ResumeKey(uuid[a]))
                 /\ uuid[b] # uuid[a] ]_vars

C16_Witness ==
    \E a, b \in Audits :
        /\ a # b
        /\ pc[a] = "await_kv_final" /\ pc[b] = "done"
        /\ Wrote(a, ResumeKey(uuid[a])) /\ Wrote(b, ResumeKey(uuid[b]))
        /\ DOMAIN kv = {ResumeKey(uuid[a]), ResumeKey(uuid[b])}

(***************************************************************************)
(* C17: a key that has been removed from the store is never written        *)
(* again: no step adds a key that an invocation had already written.       *)
(***************************************************************************)
C17_NeverRecreated ==
    [][ \A k \in DOMAIN kv' \ DOMAIN kv :
          \A a \in Audits : ~Wrote(a, k) ]_vars

\* the members of a record other than feedback
FrameMembers == {"id", "resumePath", "imagePath", "companyName", "jobTitle",
                 "jobDescription"}

\* the arguments of the i-th kv.set invocation a started
SetArg(a, i) ==
    SelectSeq(calls[a], LAMBDA e : e.ev = "start" /\ e.op = "kv.set")[i].arg

\* invocation a has started its second kv.set
FinalWriteStarted(a) == Len(Started(a)) = 6

(***************************************************************************)
(* C18: the second kv.set of an invocation is for the key of its first,    *)
(* and the record it writes has the same members with the same values as   *)
(* the first except for feedback; resumePath is the path the first upload  *)
(* returned and imagePath the path the second returned.                    *)
(***************************************************************************)
C18_FinalWriteKeepsFrame ==
    \A a \in Audits :
        FinalWriteStarted(a) =>
            LET first == JSONParse(SetArg(a, 1).value).val
                final == JSONParse(SetArg(a, 2).value).val
            IN
            /\ SetArg(a, 2).key = SetArg(a, 1).key
            /\ DOMAIN final.o = DOMAIN first.o
            /\ \A m \in FrameMembers : Field(final, m) = Field(first, m)
            /\ Field(first, "feedback") = JStr("")
            /\ Field(final, "resumePath") = JStr(uploadedFile[a])
            /\ Field(final, "imagePath") = JStr(uploadedImage[a])
            /\ fs[uploadedFile[a]] = PdfOf(args[a].file)
            /\ fs[uploadedImage[a]] = PngOf(args[a].file)
            /\ pc[a] = "done" => kv[SetArg(a, 2).key] = SetArg(a, 2).value

C18_Witness ==
    \E a \in Audits :
        /\ pc[a] = "done"
        /\ FinalWriteStarted(a)
        /\ Field(JSONParse(SetArg(a, 2).value).val, "feedback")
               # Field(JSONParse(SetArg(a, 1).value).val, "feedback")

(***************************************************************************)
(* C19: the Upload view has navigated only if no stage of its invocation   *)
(* failed, the route is /resume/<id> for the id of the invocation, and the *)
(* store holds the record of that id with feedback present.                *)
(***************************************************************************)
C19_NavigateAfterFinalRecord ==
    \A a \in Audits :
        nav[a] # "" =>
            /\ nav[a] = "/resume/" \o uuid[a]
            /\ failed[a] = ""
            /\ pc[a] = "done"
            /\ HasFeedback(uuid[a])

(***************************************************************************)
(* C21: in the bulk wipe, kv.flush is in flight only once every listed     *)
(* file has been deleted, and the store is emptied by that call only; when *)
(* a delete or the flush fails, the manifest is not reloaded and the       *)
(* dialog is not closed; and whenever no handleExecuteWipe is in flight,   *)
(* isWiping is false.                                                      *)
(***************************************************************************)
C21_WipeOrder ==
    /\ [](wpc = "await_flush" => wtargets \cap DOMAIN fs = {})
    /\ [](wpc = "idle" => ~isWiping)
    /\ [][ (\E k \in DOMAIN kv : k \notin DOMAIN kv') => wpc = "await_flush" ]_vars
    /\ [][ (wpc \in {"await_deletes", "await_flush"} /\ wpc' = "idle") =>
             /\ wfiles' = wfiles
             /\ isDialogOpen' = isDialogOpen
             /\ ~wdetached => isDialogOpen' ]_vars

C21_Witness ==
    /\ wmounted /\ ~wdetached
    /\ wpc = "idle"
    /\ isDialogOpen
    /\ wtargets # {}
    /\ wtargets \cap DOMAIN fs = {}
    /\ DOMAIN kv # {}

\* the set of active items
ActiveSet(items) == {items[i] : i \in DOMAIN items}

(***************************************************************************)
(* C22: in an Accordion with allowMultiple false at most one item is       *)
(* active; toggling the active item leaves none active and toggling an     *)
(* inactive item leaves that item, and no other, active.                   *)
(***************************************************************************)
C22_SingleMode ==
    (amounted /\ ~allowMultiple) =>
        /\ Len(activeItems) <= 1
        /\ \A id \in Items :
             LET next == ToggleItem(activeItems, id, allowMultiple) IN
             IF Includes(activeItems, id) THEN next = <<>> ELSE next = <<id>>

C22_Witness ==
    /\ amounted /\ ~allowMultiple
    /\ activeItems = <<"item-2">>

(***************************************************************************)
(* C23: in an Accordion with allowMultiple true no id is in activeItems    *)
(* twice; toggleItem(id) changes whether id is active and nothing else;    *)
(* and toggleItem(id) called twice in a row gives back the set of active   *)
(* items it started from.                                                  *)
(***************************************************************************)
C23_MultipleMode ==
    (amounted /\ allowMultiple) =>
        /\ \A i, j \in DOMAIN activeItems :
               activeItems[i] = activeItems[j] => i = j
        /\ \A id \in Items :
             LET once == ToggleItem(activeItems, id, allowMultiple)
                 twice == ToggleItem(once, id, allowMultiple)
             IN
             /\ Includes(once, id) <=> ~Includes(activeItems, id)
             /\ ActiveSet(once) \ {id} = ActiveSet(activeItems) \ {id}
             /\ ActiveSet(twice) = ActiveSet(activeItems)

C23_Witness ==
    /\ amounted /\ allowMultiple
    /\ Len(activeItems) = 3
    /\ activeItems[1] = "item-3"

(***************************************************************************)
(* Vocabulary of the location: a step in which an effect called navigate.  *)
(* A navigation by the user and a change of the session set hops to 0.     *)
(***************************************************************************)
\* a view other than Auth sent the location to /auth
GuardRedirected == route # "/auth" /\ route' = "/auth" /\ hops' = hops + 1
\* the Auth view sent the location on
AuthRedirected == route = "/auth" /\ hops' = hops + 1

(***************************************************************************)
(* C24: the Auth view navigates to the next destination only when loading  *)
(* has finished, the user is authenticated and a next parameter is         *)
(* present; Home, Resume and WipeApp redirect to /auth only when loading   *)
(* has finished and the user is not authenticated; and while the session   *)
(* stays as it is no redirect is followed by another one, so there is no   *)
(* loop between a guarded view and /auth.                                  *)
(***************************************************************************)
C24_NoRedirectLoop ==
    /\ [][AuthRedirected =>
            /\ ~isLoading /\ isAuthenticated /\ nextParam # ""
            /\ authOpen /\ route' = nextParam]_vars
    /\ [][GuardRedirected =>
            /\ ~isLoading /\ ~isAuthenticated
            /\ nextParam' = route
            /\ route \in {"/", "/resume", "/wipe"}]_vars
    /\ [](hops <= 1)

\* the Auth view has sent the signed-in user on to /wipe, whose view is on
\* screen
C24_Witness ==
    /\ hops = 1 /\ route = "/wipe" /\ wmounted
    /\ ~isLoading /\ isAuthenticated

(***************************************************************************)
(* C25: the root Layout calls init at most once, however many times its    *)
(* effect runs: on mount, a second time under Strict Mode, and again       *)
(* whenever the reference of init changes.                                 *)
(***************************************************************************)
C25_InitOnce == initCalls <= 1

\* the effect has run as often as it may and init was called by its first run
C25_Witness ==
    /\ effectRuns = MaxRuns
    /\ initCalls = 1 /\ hasInitialized

(***************************************************************************)
(* C26: in an Upload view isProcessing, once handleAnalyze has started, is *)
(* never set back to false, whether the pipeline succeeds or a stage       *)
(* fails; so the form is not shown again, handleAnalyze is started at most *)
(* once in the view, and never without a selected file.                    *)
(***************************************************************************)
\* handleAnalyze starts in view a
AnalyzeStarts(a) ==
    /\ pc'[a] = "await_upload_source"
    /\ calls'[a] # calls[a]

C26_ProcessingIsFinal ==
    /\ [][\A a \in Audits :
            /\ isProcessing[a] => isProcessing'[a]
            /\ pc[a] # "idle" => pc'[a] # "idle"
            /\ AnalyzeStarts(a) =>
                 /\ pc[a] = "idle" /\ ~isProcessing[a]
                 /\ file[a] # NoFile /\ args'[a].file = file[a]]_vars
    /\ [](\A a \in Audits : isProcessing[a] <=> pc[a] # "idle")

\* a stage has failed and the view still shows its processing screen
C26_Witness ==
    /\ pc[1] = "returned" /\ failed[1] = "RENDERING_PREVIEW"
    /\ isProcessing[1]

(***************************************************************************)
(* C27: for every record the dashboard lists, the score its ResumeCard     *)
(* shows is the overallScore persisted in the record; a pending record,    *)
(* whose feedback is still the empty string, shows no number.              *)
(***************************************************************************)
\* the records the dashboard renders a card for
Cards == IF dmounted THEN DashboardView(loadingResumes, resumes).cards ELSE {}
\* the record is pending: its feedback is the '' of the initial record
PendingRecord(resume) == Field(resume, "feedback") = JStr("")

C27_CardShowsPersistedScore ==
    \A resume \in Cards :
        /\ ~ScoreProp(resume).threw
        /\ ScoreCircle(ScoreProp(resume).val) = Field(Field(resume, "feedback"), "overallScore")
        /\ PendingRecord(resume) => ScoreCircle(ScoreProp(resume).val).t # "num"

(***************************************************************************)
(* C28: the reader view has a feedback only once the source document and   *)
(* the preview image have been read and turned into object URLs; and when  *)
(* the load for the id the view shows has stopped because the record, the  *)
(* source or the preview came back empty, it is not taken up again, no     *)
(* other load is started for that id, feedback is unset and the view shows *)
(* its loading pane.                                                       *)
(***************************************************************************)
\* load l, started by the view on screen for the id it shows, came back empty
StoppedEmpty(l) ==
    /\ mounted /\ linst[l] = inst /\ lid[l] = rid
    /\ lstop[l] \in {"no_record", "no_resume_blob", "no_image_blob"}

C28_StoppedLoadStaysLoading ==
    /\ [](feedback # JNull => resumeUrl # "" /\ imageUrl # "")
    /\ [](\A l \in Loads : StoppedEmpty(l) =>
             /\ ~Truthy(feedback)
             /\ ResumeView(imageUrl, resumeUrl, feedback).analysis
                    = "Synthesizing Metrics")
    /\ [][\A l \in Loads : StoppedEmpty(l) =>
             /\ lpc'[l] = lpc[l]
             /\ \A m \in Loads :
                  (lpc[m] = "unused" /\ lpc'[m] # "unused") =>
                      ~(linst'[m] = linst[l] /\ lid'[m] = lid[l])]_vars

(***************************************************************************)
(* C29: no view starts a storage operation or a scoring call while the     *)
(* store is still loading or the user is not signed in: not the dashboard  *)
(* (kv.list), not the wipe view (fs.readDir, fs.delete, kv.flush), not the *)
(* reader (kv.get, fs.read) and not the Upload view (fs.upload, kv.set,    *)
(* ai.feedback).                                                           *)
(***************************************************************************)
\* a step in which a view starts a call of the store or of the scorer
CallIssued ==
    \/ \E a \in Audits :
         /\ calls'[a] # calls[a]
         /\ calls'[a][Len(calls'[a])].ev = "start"
         /\ calls'[a][Len(calls'[a])].op \in {"fs.upload", "kv.set", "ai.feedback"}
    \/ \E l \in Loads :
         /\ lpc'[l] # lpc[l]
         /\ lpc'[l] \in {"await_kv_get", "await_read_resume", "await_read_image"}
    \/ dpc' = "await_kv_list" /\ dpc # "await_kv_list"
    \/ wload' /\ ~wload
    \/ wpc' # wpc /\ wpc' \in {"await_deletes", "await_flush", "await_load_files"}

C29_CallsOnlyWhenSignedIn ==
    [][CallIssued => ~isLoading' /\ isAuthenticated']_vars
====
